---- MODULE Spec2Model ----
(***************************************************************************)
(* Model of inventory_system.py: an insertion-ordered dict of item ->      *)
(* quantity, the add/remove/query/low-stock operations on it, and its      *)
(* JSON persistence.  Python values are tagged records so that the type    *)
(* checks and the TypeError/KeyError paths of the code can be modelled.    *)
(***************************************************************************)
EXTENDS Integers, Sequences, FiniteSets, TLC

(* ---------------- bounds of the exploration ---------------- *)
MaxQty == 2           \* largest stored integer quantity explored
MaxNeg == 1           \* stored quantities and net totals go down to -MaxNeg
MaxStep == 2          \* largest quantity passed to one add or remove call
MaxLogs == 1          \* the caller's action log is passed while shorter than this
MaxTypeQty == 2       \* largest quantity explored together with str and complex operands
MaxFileQty == 2       \* largest quantity explored together with file contents
MaxLowQty == 6        \* largest quantity in the mappings given to check_low_items

(* ---------------- Python values ---------------- *)
IntV(n) == [t |-> "int", n |-> n, im |-> 0]
StrV == [t |-> "str", n |-> 0, im |-> 0]          \* a str such as "ten"
CplxV(re, i) == [t |-> "complex", n |-> re, im |-> i]
NoneV == [t |-> "none", n |-> 0, im |-> 0]

\* item names: a str, or an int as in add_item(stock, 123, ...)
StrK(s) == [t |-> "str", s |-> s]
IntK(s) == [t |-> "int", s |-> s]                 \* s is the decimal text of the int
Apple == StrK("apple")
Banana == StrK("banana")
Orange == StrK("orange")
S123 == StrK("123")
N123 == IntK("123")
Empty == StrK("")

\* Python truthiness of an item name ("if not item")
Truthy(item) ==
  /\ ~(item.t = "str" /\ item.s = "")
  /\ ~(item.t = "int" /\ item.s = "0")

\* isinstance(qty, int)
IsInt(v) == v.t = "int"

InRange(v) ==
  /\ v.n >= -MaxNeg
  /\ v.im >= -1 /\ v.im <= 1

(* ---------------- Python arithmetic and comparison ---------------- *)
Numeric(v) == v.t \in {"int", "complex"}

\* a + b : TypeError unless both are numbers
PyAdd(a, b) ==
  IF ~(Numeric(a) /\ Numeric(b)) THEN [ok |-> FALSE, v |-> NoneV]
  ELSE IF a.t = "int" /\ b.t = "int" THEN [ok |-> TRUE, v |-> IntV(a.n + b.n)]
  ELSE [ok |-> TRUE, v |-> CplxV(a.n + b.n, a.im + b.im)]

\* a - b : TypeError unless both are numbers
PySub(a, b) ==
  IF ~(Numeric(a) /\ Numeric(b)) THEN [ok |-> FALSE, v |-> NoneV]
  ELSE IF a.t = "int" /\ b.t = "int" THEN [ok |-> TRUE, v |-> IntV(a.n - b.n)]
  ELSE [ok |-> TRUE, v |-> CplxV(a.n - b.n, a.im - b.im)]

\* a <= b : defined on ints only (complex and str/int comparisons raise TypeError)
PyLe(a, b) ==
  IF a.t = "int" /\ b.t = "int" THEN [ok |-> TRUE, b |-> a.n <= b.n]
  ELSE [ok |-> FALSE, b |-> FALSE]

(* ---------------- insertion-ordered dict ---------------- *)
\* a dict is a sequence of [k, v] entries with distinct keys, in insertion order
Keys(d) == {d[i].k : i \in 1..Len(d)}
Has(d, k) == \E i \in 1..Len(d) : d[i].k = k
Idx(d, k) == CHOOSE i \in 1..Len(d) : d[i].k = k
\* d.get(k, default)
DictGet(d, k, default) == IF Has(d, k) THEN d[Idx(d, k)].v ELSE default
\* d[k] = v : an existing key keeps its position, a new key goes last
DictSet(d, k, v) ==
  IF Has(d, k) THEN [d EXCEPT ![Idx(d, k)].v = v]
  ELSE Append(d, [k |-> k, v |-> v])
\* del d[k]
DictDel(d, k) ==
  LET i == Idx(d, k) IN SubSeq(d, 1, i - 1) \o SubSeq(d, i + 1, Len(d))

(* ---------------- outcome of a call ---------------- *)
\* signal: severity of the logging call made ("none" when silent);
\* exc: the exception that propagates to the caller ("none" on normal return)
Outcome(st, lg, sig, exc) == [stock |-> st, logs |-> lg, signal |-> sig, exc |-> exc]

\* the text appended to the log list: f"{now}: Added {qty} of {item}"
LogEntry(qty, item) == [qty |-> qty, item |-> item]

(* ---------------- add_item ---------------- *)
\* variant: the new quantity replaces the stored one instead of adding to it
AddItem_Overwrite(stock_data, item, qty, logs) ==
  IF ~Truthy(item) THEN Outcome(stock_data, logs, "warning", "none")
  ELSE IF ~IsInt(qty) THEN Outcome(stock_data, logs, "error", "none")
  ELSE Outcome(DictSet(stock_data, item, qty),
               Append(logs, LogEntry(qty, item)), "info", "none")

\* variant: the check for an empty item name is missing
AddItem_NoNameCheck(stock_data, item, qty, logs) ==
  IF ~IsInt(qty) THEN Outcome(stock_data, logs, "error", "none")
  ELSE LET sum == PyAdd(DictGet(stock_data, item, IntV(0)), qty) IN
       IF ~sum.ok THEN Outcome(stock_data, logs, "none", "TypeError")
       ELSE Outcome(DictSet(stock_data, item, sum.v),
                    Append(logs, LogEntry(qty, item)), "info", "none")

\* logs is the list actually appended to (a fresh [] when the caller gave None)
AddItem(stock_data, item, qty, logs) ==
  IF ~Truthy(item) THEN Outcome(stock_data, logs, "warning", "none")
  ELSE IF ~IsInt(qty) THEN Outcome(stock_data, logs, "error", "none")
  ELSE LET sum == PyAdd(DictGet(stock_data, item, IntV(0)), qty) IN
       IF ~sum.ok THEN Outcome(stock_data, logs, "none", "TypeError")
       ELSE Outcome(DictSet(stock_data, item, sum.v),
                    Append(logs, LogEntry(qty, item)), "info", "none")

(* ---------------- remove_item ---------------- *)
\* the body of remove_item with the arithmetic and the deletion test as parameters
RemoveWith(stock_data, item, qty, Op(_, _), Depleted(_)) ==
  IF ~Has(stock_data, item)
  THEN Outcome(stock_data, <<>>, "warning", "none")
  ELSE LET diff == Op(DictGet(stock_data, item, NoneV), qty) IN
       IF ~diff.ok
       THEN Outcome(stock_data, <<>>, "error", "none")
       ELSE LET assigned == DictSet(stock_data, item, diff.v)
                le == Depleted(diff.v)
            IN IF ~le.ok
               THEN Outcome(assigned, <<>>, "error", "none")
               ELSE IF le.b
               THEN Outcome(DictDel(assigned, item), <<>>, "info", "none")
               ELSE Outcome(assigned, <<>>, "none", "none")

LeZero(v) == PyLe(v, IntV(0))
LtZero(v) == PyLe(v, IntV(-1))
Never(v) == [ok |-> PyLe(v, IntV(0)).ok, b |-> FALSE]

\* variant: the item is deleted only when its quantity drops below 0
RemoveItem_StrictLess(stock_data, item, qty) ==
  RemoveWith(stock_data, item, qty, PySub, LtZero)

\* variant: the quantity is added instead of subtracted
RemoveItem_AddsBack(stock_data, item, qty) ==
  RemoveWith(stock_data, item, qty, PyAdd, LeZero)

\* variant: a depleted item is never deleted
RemoveItem_NoDelete(stock_data, item, qty) ==
  RemoveWith(stock_data, item, qty, PySub, Never)

RemoveItem(stock_data, item, qty) ==
  IF ~Has(stock_data, item)
  THEN Outcome(stock_data, <<>>, "warning", "none")            \* KeyError
  ELSE LET diff == PySub(DictGet(stock_data, item, NoneV), qty) IN
       IF ~diff.ok
       THEN Outcome(stock_data, <<>>, "error", "none")         \* TypeError in -=
       ELSE LET assigned == DictSet(stock_data, item, diff.v)
                le == PyLe(diff.v, IntV(0))
            IN IF ~le.ok
               THEN Outcome(assigned, <<>>, "error", "none")   \* TypeError in <= 0
               ELSE IF le.b
               THEN Outcome(DictDel(assigned, item), <<>>, "info", "none")
               ELSE Outcome(assigned, <<>>, "none", "none")

(* ---------------- get_qty ---------------- *)
GetQty(stock_data, item) == DictGet(stock_data, item, IntV(0))

(* ---------------- check_low_items ---------------- *)
DefaultThreshold == 5

\* the loop over stock_data.items(), from entry i on, with result so far
RECURSIVE LowLoop(_, _, _, _)
LowLoop(stock_data, threshold, i, result) ==
  IF i > Len(stock_data) THEN [exc |-> "none", ret |-> result]
  ELSE LET le == PyLe(stock_data[i].v, threshold) IN
       IF ~le.ok THEN [exc |-> "TypeError", ret |-> <<>>]
       ELSE LowLoop(stock_data, threshold, i + 1,
                    IF le.b THEN Append(result, stock_data[i].k) ELSE result)

\* variant: the comparison is < instead of <=
CheckLowItems_Strict(stock_data, threshold) ==
  LowLoop(stock_data, IntV(threshold.n - 1), 1, <<>>)

CheckLowItems(stock_data, threshold) == LowLoop(stock_data, threshold, 1, <<>>)

(* ---------------- the JSON file ---------------- *)
\* kind: "missing" (no such file), "unreadable" (open fails with another
\* OSError), "corrupt" (not valid JSON text), "json" (a JSON object whose
\* members, in text order, are text); member names are JSON strings
FileMissing == [kind |-> "missing", text |-> <<>>]
FileUnreadable == [kind |-> "unreadable", text |-> <<>>]
FileCorrupt == [kind |-> "corrupt", text |-> <<>>]
FileJson(text) == [kind |-> "json", text |-> text]

\* json.dump turns every key into a JSON string: a str is itself, an int its decimal text
JsonKey(item) == item.s
\* values json can serialise
Serialisable(v) == v.t \in {"int", "str"}

\* the members json.dump writes for a dict, in iteration order
RECURSIVE DumpMembers(_, _)
DumpMembers(d, i) ==
  IF i > Len(d) THEN <<>>
  ELSE <<[name |-> JsonKey(d[i].k), v |-> d[i].v]>> \o DumpMembers(d, i + 1)

\* json.load of an object: each member is assigned in text order, names are str
RECURSIVE ParseMembers(_, _, _)
ParseMembers(text, i, d) ==
  IF i > Len(text) THEN d
  ELSE ParseMembers(text, i + 1, DictSet(d, StrK(text[i].name), text[i].v))

(* ---------------- load_data ---------------- *)
LoadData(f) ==
  CASE f.kind = "missing" -> [exc |-> "none", signal |-> "warning", ret |-> <<>>]
    [] f.kind = "unreadable" -> [exc |-> "OSError", signal |-> "none", ret |-> <<>>]
    [] f.kind = "corrupt" -> [exc |-> "none", signal |-> "error", ret |-> <<>>]
    [] OTHER -> [exc |-> "none", signal |-> "info", ret |-> ParseMembers(f.text, 1, <<>>)]

(* ---------------- save_data ---------------- *)
\* io: "ok", "open" (open() raises IOError) or "write" (a write raises IOError
\* after open() has truncated the file)
\* variant: the IOError is not caught
SaveData_Uncaught(stock_data, f, io) ==
  IF io = "open" THEN [exc |-> "OSError", signal |-> "none", file |-> f]
  ELSE IF \E i \in 1..Len(stock_data) : ~Serialisable(stock_data[i].v)
  THEN [exc |-> "TypeError", signal |-> "none", file |-> FileCorrupt]
  ELSE IF io = "write" THEN [exc |-> "OSError", signal |-> "none", file |-> FileCorrupt]
  ELSE [exc |-> "none", signal |-> "info", file |-> FileJson(DumpMembers(stock_data, 1))]

SaveData(stock_data, f, io) ==
  IF io = "open" THEN [exc |-> "none", signal |-> "error", file |-> f]
  ELSE IF \E i \in 1..Len(stock_data) : ~Serialisable(stock_data[i].v)
  THEN [exc |-> "TypeError", signal |-> "none", file |-> FileCorrupt]
  ELSE IF io = "write" THEN [exc |-> "none", signal |-> "error", file |-> FileCorrupt]
  ELSE [exc |-> "none", signal |-> "info", file |-> FileJson(DumpMembers(stock_data, 1))]

(* ======================= the state machine ======================= *)
VARIABLES
  stock,      \* the inventory dict of the caller (main's `stock`)
  logs,       \* the caller's action log list (main's `action_logs`)
  file,       \* the contents of the file at the path used by load/save
  call,       \* the last call made: operation, arguments, signal, exception, result
  net,        \* history: per item, loaded quantity + added - removed since load
  since,      \* history: per item, the same net counted from 0 after each depletion
  fromEmpty,  \* history: the mapping started empty and no call was rejected since
  negAdd      \* history: fromEmpty, and some add had a negative quantity

vars == <<stock, logs, file, call, net, since, fromEmpty, negAdd>>

NoItem == [t |-> "none", s |-> ""]
Call(op, item, qty, thr, io, sig, exc, ret, low) ==
  [op |-> op, item |-> item, qty |-> qty, thr |-> thr, io |-> io,
   signal |-> sig, exc |-> exc, ret |-> ret, low |-> low]

NetKeys == {Apple, Banana, Orange, N123, S123}

\* the net quantities right after a load
LoadedNet(d) ==
  [k \in NetKeys |-> IF Has(d, k) /\ IsInt(DictGet(d, k, NoneV)) THEN DictGet(d, k, NoneV).n ELSE 0]

\* every stored quantity is within the explored range
Bounded(d, hi) == \A i \in 1..Len(d) : InRange(d[i].v) /\ d[i].v.n <= hi

\* the net total of an item stays within the explored range
NetBounded(n, hi) == n >= -MaxNeg /\ n <= hi

(* ---------------- inputs of the three specifications ---------------- *)
IntQtys(lo, hi) == {IntV(n) : n \in lo..hi}
\* integer-valued store: all operations on quantities -MaxNeg..MaxQty
StoreIn == [items |-> {Apple, N123, Empty},
            qtys |-> IntQtys(-1, MaxStep),
            hi |-> MaxQty, passLogs |-> {FALSE},
            thresholds |-> {IntV(1), NoneV}]
\* operand types: str and complex operands, the action log passed along
TypesIn == [items |-> {Apple, N123, Empty},
            qtys |-> {IntV(1), StrV, CplxV(0, 1)},
            hi |-> MaxTypeQty, passLogs |-> {FALSE, TRUE},
            thresholds |-> {IntV(1), NoneV}]
\* persistence: add, save and load
FileIn == [items |-> {Apple, N123, S123},
           qtys |-> IntQtys(1, MaxFileQty),
           hi |-> MaxFileQty, passLogs |-> {FALSE},
           thresholds |-> {NoneV}]

\* low-stock report: the read operations on loaded mappings of up to three
\* items, in every order, with quantities around the default threshold
LowIn == [items |-> {Apple, Banana, Orange},
          qtys |-> {IntV(1)},
          hi |-> MaxLowQty, passLogs |-> {FALSE},
          thresholds |-> {IntV(MaxLowQty - 2), IntV(MaxLowQty), NoneV}]

Member(name, v) == [name |-> name, v |-> v]
StoreFiles == {FileMissing, FileJson(<<Member("apple", IntV(1))>>)}
TypesFiles == {FileMissing, FileJson(<<Member("apple", StrV)>>)}
FileFiles == {FileMissing, FileUnreadable, FileCorrupt,
              FileJson(<<Member("apple", IntV(1))>>)}

\* every JSON object of up to three distinctly named members, in any order
LowMembers == {Member(nm, v) : nm \in {"apple", "banana", "orange"},
                               v \in IntQtys(MaxLowQty - 2, MaxLowQty)}
LowFiles ==
  {FileJson(text) : text \in
     {t \in UNION {[1..n -> LowMembers] : n \in 0..3} :
        \A i, j \in DOMAIN t : t[i].name = t[j].name => i = j}}

(* ---------------- initial states: main() after load_data() ---------------- *)
InitFrom(files) ==
  /\ file \in files
  /\ stock = LoadData(file).ret
  /\ logs = <<>>
  /\ call = Call("load", NoItem, NoneV, NoneV, "none",
                 LoadData(file).signal, LoadData(file).exc, NoneV, <<>>)
  /\ net = LoadedNet(stock)
  /\ since = LoadedNet(stock)
  /\ fromEmpty = (stock = <<>>)
  /\ negAdd = FALSE

(* ---------------- actions ---------------- *)
\* add_item(stock, item, qty, logs) / add_item(stock, item, qty)
Add(in) ==
  \E item \in in.items, qty \in in.qtys, pass \in in.passLogs :
    LET r == AddItem(stock, item, qty, IF pass THEN logs ELSE <<>>)
        applied == r.signal = "info"
    IN /\ pass => Len(logs) < MaxLogs
       /\ Bounded(r.stock, in.hi)
       /\ applied => NetBounded(net[item] + qty.n, in.hi)
       /\ stock' = r.stock
       /\ logs' = IF pass THEN r.logs ELSE logs
       /\ call' = Call("add", item, qty, NoneV, "none", r.signal, r.exc, NoneV, <<>>)
       /\ net' = IF applied THEN [net EXCEPT ![item] = @ + qty.n] ELSE net
       /\ since' = IF applied THEN [since EXCEPT ![item] = @ + qty.n] ELSE since
       /\ fromEmpty' = (fromEmpty /\ applied)
       /\ negAdd' = (fromEmpty' /\ (negAdd \/ qty.n < 0))
       /\ UNCHANGED file

\* remove_item(stock, item, qty)
Remove(in) ==
  \E item \in in.items, qty \in in.qtys :
    LET r == RemoveItem(stock, item, qty)
        applied == r.signal \in {"none", "info"}
    IN /\ Bounded(r.stock, in.hi)
       /\ applied => NetBounded(net[item] - qty.n, in.hi)
       /\ stock' = r.stock
       /\ call' = Call("remove", item, qty, NoneV, "none", r.signal, r.exc, NoneV, <<>>)
       /\ net' = IF applied THEN [net EXCEPT ![item] = @ - qty.n] ELSE net
       /\ since' = IF applied
                   THEN [since EXCEPT ![item] = IF @ - qty.n <= 0 THEN 0 ELSE @ - qty.n]
                   ELSE since
       /\ fromEmpty' = (fromEmpty /\ applied)
       /\ negAdd' = (fromEmpty' /\ negAdd)
       /\ UNCHANGED <<logs, file>>

\* get_qty(stock, item)
Query(in) ==
  \E item \in in.items :
    /\ call' = Call("get", item, NoneV, NoneV, "none", "none", "none", GetQty(stock, item), <<>>)
    /\ UNCHANGED <<stock, logs, file, net, since, fromEmpty, negAdd>>

\* check_low_items(stock, threshold) / check_low_items(stock)
CheckLow(in) ==
  \E thr \in in.thresholds :
    LET r == CheckLowItems(stock, IF thr = NoneV THEN IntV(DefaultThreshold) ELSE thr)
    IN /\ call' = Call("low", NoItem, NoneV, thr, "none", "none", r.exc, NoneV, r.ret)
       /\ UNCHANGED <<stock, logs, file, net, since, fromEmpty, negAdd>>

\* save_data(stock), the write succeeding or failing with an IOError
Save ==
  \E io \in {"ok", "open", "write"} :
    LET r == SaveData(stock, file, io)
    IN /\ file' = r.file
       /\ call' = Call("save", NoItem, NoneV, NoneV, io, r.signal, r.exc, NoneV, <<>>)
       /\ UNCHANGED <<stock, logs, net, since, fromEmpty, negAdd>>

\* stock = load_data(); on an exception the caller's mapping is not replaced
Load ==
  LET r == LoadData(file)
      d == IF r.exc = "none" THEN r.ret ELSE stock
  IN /\ stock' = d
     /\ call' = Call("load", NoItem, NoneV, NoneV, "none", r.signal, r.exc, NoneV, <<>>)
     /\ net' = IF r.exc = "none" THEN LoadedNet(d) ELSE net
     /\ since' = IF r.exc = "none" THEN LoadedNet(d) ELSE since
     /\ fromEmpty' = IF r.exc = "none" THEN d = <<>> ELSE fromEmpty
     /\ negAdd' = (r.exc # "none" /\ negAdd)
     /\ UNCHANGED <<logs, file>>

(* ---------------- specifications ---------------- *)
InitStore == InitFrom(StoreFiles)
NextStore == Add(StoreIn) \/ Remove(StoreIn) \/ Query(StoreIn) \/ CheckLow(StoreIn)
SpecStore == InitStore /\ [][NextStore]_vars

InitTypes == InitFrom(TypesFiles)
NextTypes == Add(TypesIn) \/ Remove(TypesIn) \/ Query(TypesIn) \/ CheckLow(TypesIn)
SpecTypes == InitTypes /\ [][NextTypes]_vars

InitLow == InitFrom(LowFiles)
NextLow == Query(LowIn) \/ CheckLow(LowIn)
SpecLow == InitLow /\ [][NextLow]_vars

\* the process before its first call: no mapping loaded yet, any file on disk
InitFile ==
  /\ file \in FileFiles
  /\ stock = <<>>
  /\ logs = <<>>
  /\ call = Call("none", NoItem, NoneV, NoneV, "none", "none", "none", NoneV, <<>>)
  /\ net = LoadedNet(stock)
  /\ since = LoadedNet(stock)
  /\ fromEmpty = TRUE
  /\ negAdd = FALSE
NextFile == Add(FileIn) \/ Save \/ Load
SpecFile == InitFile /\ [][NextFile]_vars

(* ======================= properties ======================= *)
\* two mappings with the same key set and the same value for every key
SameMapping(a, b) ==
  /\ Keys(a) = Keys(b)
  /\ \A k \in Keys(a) : DictGet(a, k, NoneV) = DictGet(b, k, NoneV)

\* every key other than item is present in both or neither, with the same value
OthersUnchanged(a, b, item) ==
  \A k \in (Keys(a) \cup Keys(b)) \ {item} :
    /\ Has(a, k) = Has(b, k)
    /\ DictGet(a, k, NoneV) = DictGet(b, k, NoneV)

\* C1: an add of an integer qty under a non-empty name makes quantity_of(name)
\* the prior quantity_of(name) (0 if absent) plus qty, and changes no other key.
C1_AddThenQuantityOf ==
  [][(/\ call'.op = "add"
      /\ Truthy(call'.item)
      /\ IsInt(call'.qty)
      /\ IsInt(GetQty(stock, call'.item)))
     => (/\ call'.exc = "none"
         /\ GetQty(stock', call'.item)
              = IntV(GetQty(stock, call'.item).n + call'.qty.n)
         /\ OthersUnchanged(stock, stock', call'.item))]_vars

\* an add of a negative quantity to a present item was made beside another item
C1_Witness ==
  /\ call.op = "add" /\ call.signal = "info" /\ call.qty.n < 0
  /\ Has(stock, call.item) /\ Len(stock) = 2
  /\ GetQty(stock, call.item).n > 0

\* C2: a remove of integer q from a name present with integer v leaves v - q
\* when v - q > 0 and deletes the key when v - q <= 0; other keys are unchanged.
C2_RemoveDecrementsOrDeletes ==
  [][(/\ call'.op = "remove"
      /\ Has(stock, call'.item)
      /\ IsInt(GetQty(stock, call'.item))
      /\ IsInt(call'.qty))
     => LET d == GetQty(stock, call'.item).n - call'.qty.n
        IN /\ d > 0 => (Has(stock', call'.item) /\ GetQty(stock', call'.item) = IntV(d))
           /\ d <= 0 => ~Has(stock', call'.item)
           /\ Has(stock', call'.item) => GetQty(stock', call'.item).n > 0
           /\ OthersUnchanged(stock, stock', call'.item)]_vars

\* a remove has just deleted its item and left another item in place
C2_Witness ==
  /\ call.op = "remove" /\ call.signal = "info" /\ IsInt(call.qty)
  /\ ~Has(stock, call.item) /\ Len(stock) = 1

\* C3 as stated: every key present holds its loaded quantity plus all added
\* minus all removed quantities since load.
C3_NetSinceLoad ==
  \A i \in 1..Len(stock) : IsInt(stock[i].v) => stock[i].v.n = net[stock[i].k]

\* C3 amended: every key present holds the net of the adds and removes applied
\* to it since it was last deleted by a remove (since load if it never was).
C3_NetSinceDepletion ==
  \A i \in 1..Len(stock) : IsInt(stock[i].v) => stock[i].v.n = since[stock[i].k]

\* an item was removed below zero, deleted, and added again
C3_Witness ==
  \E i \in 1..Len(stock) : since[stock[i].k] # net[stock[i].k] /\ call.op = "add"

IntegerMapping(d) == \A i \in 1..Len(d) : IsInt(d[i].v)
NonNegative(d) == \A i \in 1..Len(d) : IsInt(d[i].v) /\ d[i].v.n >= 0

\* C4 as stated: starting from an empty mapping, after any add and remove calls
\* that were not rejected, every key present maps to a quantity >= 0.
C4_NonNegative == fromEmpty => NonNegative(stock)

\* C4 amended: the same, when every add had a quantity >= 0.
C4_NonNegativeAfterNonNegativeAdds == (fromEmpty /\ ~negAdd) => NonNegative(stock)

\* a remove on a mapping built from empty by non-negative adds left a key in place
C4_Witness ==
  /\ fromEmpty /\ ~negAdd
  /\ call.op = "remove" /\ call.qty.n > 0
  /\ stock # <<>>

\* C5: a save followed by a load of the same path gives back the saved mapping:
\* the same key set and the same integer value for every key.
C5_SaveLoadRoundTrip ==
  [][(/\ call.op = "save" /\ call.signal = "info"
      /\ call'.op = "load")
     => (call'.exc = "none" /\ SameMapping(stock', stock))]_vars

\* C6: an add with an empty name or a non-integer quantity returns normally,
\* leaves the mapping and the action log unchanged, and signals a warning
\* (empty name) or an error (bad quantity).
C6_RejectedAddIsNoOp ==
  [][(/\ call'.op = "add"
      /\ (~Truthy(call'.item) \/ ~IsInt(call'.qty)))
     => (/\ call'.exc = "none"
         /\ stock' = stock
         /\ logs' = logs
         /\ call'.signal = IF ~Truthy(call'.item) THEN "warning" ELSE "error")]_vars

\* add_item(stock, 123, "ten", action_logs) was rejected with the log passed along
C6_Witness ==
  /\ call.op = "add" /\ call.signal = "error"
  /\ call.item = N123 /\ call.qty = StrV
  /\ stock # <<>> /\ logs # <<>>

\* C7: a remove that signals the not-found warning or the invalid-operand
\* error leaves the mapping exactly as it was.
C7_FailedRemoveIsNoOp ==
  [][(call'.op = "remove" /\ call'.signal \in {"warning", "error"})
     => stock' = stock]_vars

\* C8 as stated: a save that fails with an I/O error returns normally with an
\* error signal and leaves the file as it was.
C8_FailedSaveLeavesFile ==
  [][(call'.op = "save" /\ call'.io # "ok" /\ call'.exc = "none")
     => (call'.signal = "error" /\ file' = file)]_vars

\* C8 amended: a save that fails with an I/O error returns normally with an
\* error signal and leaves the mapping unchanged; the file is as it was when
\* the failure came from opening it.
C8_FailedOpenLeavesFile ==
  [][(call'.op = "save" /\ call'.io # "ok" /\ IntegerMapping(stock))
     => (/\ call'.exc = "none"
         /\ call'.signal = "error"
         /\ stock' = stock
         /\ call'.io = "open" => (file' = file /\ LoadData(file') = LoadData(file)))]_vars

\* a save failed on open while the file held an older mapping than the one in memory
C8_Witness ==
  /\ call.op = "save" /\ call.io = "open"
  /\ file.kind = "json"
  /\ ~SameMapping(LoadData(file).ret, stock)

\* C9: a load of a missing, unreadable or corrupt file returns an empty mapping
\* without raising, with a warning for the missing file and an error otherwise.
C9_LoadNeverRaises ==
  (call.op = "load" /\ file.kind \in {"missing", "unreadable", "corrupt"})
    => (/\ call.exc = "none"
        /\ stock = <<>>
        /\ call.signal = IF file.kind = "missing" THEN "warning" ELSE "error")

\* position of a key in the iteration order of a mapping
Pos(d, k) == CHOOSE i \in 1..Len(d) : d[i].k = k

\* C10: low_stock returns exactly the names whose quantity is <= threshold
\* (5 when none is given), each once, in mapping iteration order, and leaves
\* the mapping unchanged.
C10_LowStock ==
  [][(call'.op = "low" /\ IntegerMapping(stock))
     => LET th == IF call'.thr = NoneV THEN 5 ELSE call'.thr.n
            res == call'.low
        IN /\ call'.exc = "none"
           /\ stock' = stock
           /\ {res[i] : i \in 1..Len(res)}
                = {stock[i].k : i \in {j \in 1..Len(stock) : stock[j].v.n <= th}}
           /\ \A i, j \in 1..Len(res) : i < j => Pos(stock, res[i]) < Pos(stock, res[j])]_vars

\* the default threshold kept an item at 5 and dropped one at 6 that came
\* earlier in the mapping
C10_Witness ==
  /\ call.op = "low" /\ call.thr = NoneV
  /\ Len(stock) = 3 /\ Len(call.low) = 2
  /\ stock[1].v.n = 6
  /\ \E i \in 2..3 : stock[i].v.n = 5

====
